---- MODULE Spec2Model ----
(***************************************************************************)
(* Model of the advertisement service: the aiohttp middlewares (app.py),   *)
(* the JWT helpers (auth.py), the validators and the request handlers      *)
(* (handlers.py) over the two tables of db.py.                             *)
(*                                                                         *)
(* Strings are sequences of one-character strings, so that strip(),        *)
(* lower(), split(), str() and int() are computed and not assumed.         *)
(* A request whose handler issues one SQL statement is one step; update    *)
(* and delete issue two statements on one connection and are two steps     *)
(* (the SELECT of the owner, then the UPDATE / DELETE), other requests may *)
(* run between the two.                                                    *)
(***************************************************************************)
EXTENDS Integers, Sequences, FiniteSets, TLC

VARIABLES users, user_seq, ads, ad_seq, issued, now, ticks, pend, last

vars == <<users, user_seq, ads, ad_seq, issued, now, ticks, pend, last>>

(***************************************************************************)
(* Bounds of the model.                                                    *)
(***************************************************************************)
MaxUsers == 2
MaxAds == 2
MaxTokens == 2
MaxTicks == 2
Procs == {1, 2}

(***************************************************************************)
(* Configuration (config.py) and limits of the validators.                 *)
(***************************************************************************)
JWT_SECRET == "change_me"
JWT_ALGORITHM == "HS256"
JWT_EXPIRES_MINUTES == 60
SecondsPerMinute == 60
MaxTitleLen == 200
MinPasswordLen == 6

(***************************************************************************)
(* Python string primitives.                                               *)
(***************************************************************************)
isspace(c) == c = " "

RECURSIVE lstrip(_)
lstrip(s) == IF s = <<>> THEN <<>>
             ELSE IF isspace(Head(s)) THEN lstrip(Tail(s)) ELSE s

RECURSIVE rstrip(_)
rstrip(s) == IF s = <<>> THEN <<>>
             ELSE IF isspace(s[Len(s)]) THEN rstrip(SubSeq(s, 1, Len(s) - 1)) ELSE s

strip(s) == rstrip(lstrip(s))

UpperChars == <<"A", "B", "E", "R", "X">>
LowerChars == <<"a", "b", "e", "r", "x">>

lower_char(c) == IF \E i \in DOMAIN UpperChars : UpperChars[i] = c
                 THEN LowerChars[CHOOSE i \in DOMAIN UpperChars : UpperChars[i] = c]
                 ELSE c

lower(s) == [i \in DOMAIN s |-> lower_char(s[i])]

DigitChars == <<"0", "1", "2", "3", "4", "5", "6", "7", "8", "9">>

RECURSIVE str(_)
str(n) == IF n < 10 THEN <<DigitChars[n + 1]>>
          ELSE Append(str(n \div 10), DigitChars[(n % 10) + 1])

DigitVal(c) == CHOOSE d \in 0..9 : DigitChars[d + 1] = c

RECURSIVE int(_)
int(s) == IF Len(s) = 1 THEN DigitVal(s[1])
          ELSE 10 * int(SubSeq(s, 1, Len(s) - 1)) + DigitVal(s[Len(s)])

(***************************************************************************)
(* JSON values of a request body: null, a number or a string.  A body is a *)
(* function from the keys it carries to JSON values; dict.get gives None   *)
(* for a key the body lacks.                                               *)
(***************************************************************************)
None == [t |-> "null"]
Num(n) == [t |-> "num", n |-> n]
Str(s) == [t |-> "str", s |-> s]

get(payload, key) == IF key \in DOMAIN payload THEN payload[key] ELSE None

\* Mutant: any string counts as filled.
_not_empty_any_str(value) == value.t = "str"

_not_empty(value) == value.t = "str" /\ strip(value.s) # <<>>

ValidationError(errors) == [ok |-> FALSE, errors |-> errors]
Validated(data) == [ok |-> TRUE, data |-> data]

\* A dict built by conditional insertion: the keys of f whose flag is set.
Restrict(f, keys) == [k \in keys |-> f[k]]

(***************************************************************************)
(* Validators called by the handlers.  handlers.py imports                 *)
(* validate_register, validate_login, validate_create_ad and               *)
(* validate_update_ad; they follow the field contracts of the design       *)
(* (section 4.4), with the result shape of validators.ValidationError: a   *)
(* mapping field -> message carrying every violation at once.              *)
(***************************************************************************)
has_char(s, c) == \E i \in DOMAIN s : s[i] = c

\* local@domain.tld: an "@", no whitespace, a "." after the "@".
email_shape(s) ==
    /\ has_char(s, "@")
    /\ ~ has_char(s, " ")
    /\ \E i, j \in DOMAIN s : s[i] = "@" /\ s[j] = "." /\ i < j

email_error(v) ==
    IF ~ _not_empty(v) THEN "Field cannot be empty"
    ELSE IF ~ email_shape(strip(v.s)) THEN "Invalid email"
    ELSE "ok"

password_error(v) ==
    IF ~ _not_empty(v) THEN "Field cannot be empty"
    ELSE IF Len(strip(v.s)) < MinPasswordLen THEN "Min length is 6"
    ELSE "ok"

validate_register(payload) ==
    LET email == get(payload, "email")
        password == get(payload, "password")
        bad == {k \in {"email", "password"} :
                  IF k = "email" THEN email_error(email) # "ok"
                  ELSE password_error(password) # "ok"}
        errors == [k \in bad |-> IF k = "email" THEN email_error(email)
                                 ELSE password_error(password)]
    IN  IF bad # {} THEN ValidationError(errors)
        ELSE Validated([email |-> lower(strip(email.s)), password |-> strip(password.s)])

validate_login(payload) == validate_register(payload)

\* The non-blank and length rule of one text field: its message, or "ok".
text_error(v, max_len) ==
    IF ~ _not_empty(v) THEN "Field cannot be empty"
    ELSE IF max_len > 0 /\ Len(strip(v.s)) > max_len THEN "Max length is 200"
    ELSE "ok"

field_limit(k) == IF k = "title" THEN MaxTitleLen ELSE 0

validate_create_ad(payload) ==
    LET fields == {"title", "description"}
        bad == {k \in fields : text_error(get(payload, k), field_limit(k)) # "ok"}
        errors == [k \in bad |-> text_error(get(payload, k), field_limit(k))]
    IN  IF bad # {} THEN ValidationError(errors)
        ELSE Validated([k \in fields |-> strip(payload[k].s)])

\* The closed allow-list of client-editable listing fields.
AllowedUpdateFields == {"title", "description"}

validate_update_ad(payload) ==
    LET data == Restrict(payload, DOMAIN payload \cap AllowedUpdateFields)
        present == {k \in DOMAIN data : data[k].t # "null"}
        bad == {k \in present : text_error(data[k], field_limit(k)) # "ok"}
        errors == [k \in bad |-> text_error(data[k], field_limit(k))]
        out == [k \in present |-> strip(data[k].s)]
    IN  IF DOMAIN data = {} THEN ValidationError([k \in {"_"} |-> "No fields to update"])
        ELSE IF bad # {} THEN ValidationError(errors)
        ELSE IF present = {} THEN ValidationError([k \in {"_"} |-> "No valid fields to update"])
        ELSE Validated(out)

(***************************************************************************)
(* JWT (auth.py over PyJWT).  A token is its header algorithm, its claims  *)
(* and its signature; the signature of an HMAC algorithm is determined by  *)
(* the key, the algorithm and the claims, and "none" carries no signature. *)
(***************************************************************************)
Sign(secret, algorithm, payload) ==
    IF algorithm = "none" THEN <<>> ELSE <<secret, algorithm, payload>>

jwt_encode(payload, secret, algorithm) ==
    [alg |-> algorithm, payload |-> payload, sig |-> Sign(secret, algorithm, payload)]

create_jwt(user_id, secret, algorithm, expires_minutes, time) ==
    jwt_encode([sub |-> str(user_id),
                iat |-> time,
                exp |-> time + expires_minutes * SecondsPerMinute],
               secret, algorithm)

\* Mutant: a token is expired only after its exp second has passed.
decode_jwt_late(token, secret, algorithm, time) ==
    IF token.alg # algorithm THEN [ok |-> FALSE, exc |-> "InvalidTokenError"]
    ELSE IF token.sig # Sign(secret, token.alg, token.payload)
         THEN [ok |-> FALSE, exc |-> "InvalidTokenError"]
    ELSE IF token.payload.exp < time THEN [ok |-> FALSE, exc |-> "ExpiredSignatureError"]
    ELSE [ok |-> TRUE, payload |-> token.payload]

\* Mutant: the signature is verified under the algorithm the token declares.
decode_jwt_declared_alg(token, secret, algorithm, time) ==
    IF token.sig # Sign(secret, token.alg, token.payload)
    THEN [ok |-> FALSE, exc |-> "InvalidTokenError"]
    ELSE IF token.payload.exp <= time THEN [ok |-> FALSE, exc |-> "ExpiredSignatureError"]
    ELSE [ok |-> TRUE, payload |-> token.payload]

\* jwt.decode(token, secret, algorithms=[algorithm]) at time `time`: the
\* declared algorithm must be the accepted one, then the signature must
\* verify, then exp must lie in the future.
decode_jwt(token, secret, algorithm, time) ==
    IF token.alg # algorithm THEN [ok |-> FALSE, exc |-> "InvalidTokenError"]
    ELSE IF token.sig # Sign(secret, token.alg, token.payload)
         THEN [ok |-> FALSE, exc |-> "InvalidTokenError"]
    ELSE IF token.payload.exp <= time THEN [ok |-> FALSE, exc |-> "ExpiredSignatureError"]
    ELSE [ok |-> TRUE, payload |-> token.payload]

(***************************************************************************)
(* The Authorization header: absent, or a string given as the sequence of  *)
(* its pieces, each a run of whitespace, a scheme word or a token.         *)
(***************************************************************************)
NoHeader == [present |-> FALSE]
Header(raw) == [present |-> TRUE, raw |-> raw]
SP == [k |-> "sp"]
Word(w) == [k |-> "word", w |-> w]
Tok(t) == [k |-> "tok", t |-> t]

NotSpace(piece) == piece.k # "sp"
split(raw) == SelectSeq(raw, NotSpace)

is_bearer(piece) == piece.k = "word" /\ lower(piece.w) = <<"b", "e", "a", "r", "e", "r">>

NoToken == [k |-> "none"]

\* Mutant: any scheme word is taken for Bearer.
extract_bearer_token_any_scheme(auth_header) ==
    IF ~ auth_header.present \/ auth_header.raw = <<>> THEN NoToken
    ELSE LET parts == split(auth_header.raw)
         IN  IF Len(parts) # 2 THEN NoToken
             ELSE parts[2]

extract_bearer_token(auth_header) ==
    IF ~ auth_header.present \/ auth_header.raw = <<>> THEN NoToken
    ELSE LET parts == split(auth_header.raw)
         IN  IF Len(parts) # 2 \/ ~ is_bearer(parts[1]) THEN NoToken
             ELSE parts[2]

(***************************************************************************)
(* Responses, and the two middlewares of app.py.                           *)
(***************************************************************************)
Response(status, body) == [status |-> status, body |-> body]
Error(status, reason) == Response(status, [error |-> reason])

\* What a handler does: it returns a response, raises a web.HTTPException
\* or raises any other exception.
Returns(resp) == [how |-> "return", resp |-> resp]
RaisesHTTP(status, reason) == [how |-> "http", status |-> status, reason |-> reason]
Raises(exc) == [how |-> "raise", exc |-> exc]

error_middleware(outcome) ==
    IF outcome.how = "return" THEN outcome.resp
    ELSE IF outcome.how = "http" THEN Error(outcome.status, outcome.reason)
    ELSE Error(500, "Internal server error")

\* request["user_id"] is the integer 0 when the middleware set nothing:
\* require_auth treats None and 0 alike.
Pass(user_id) == [pass |-> TRUE, user_id |-> user_id]
ShortCircuit(resp) == [pass |-> FALSE, resp |-> resp]

\* Mutant: a token that fails verification leaves the request anonymous.
auth_middleware_lenient(auth_header, time) ==
    LET token == extract_bearer_token(auth_header)
    IN  IF token.k = "none" THEN Pass(0)
        ELSE IF token.k # "tok" THEN Pass(0)
        ELSE LET r == decode_jwt(token.t, JWT_SECRET, JWT_ALGORITHM, time)
             IN  IF r.ok THEN Pass(int(r.payload.sub))
                 ELSE Pass(0)

\* Mutant: a later login of the same user revokes the tokens it got before.
auth_middleware_latest_only(auth_header, time) ==
    LET token == extract_bearer_token(auth_header)
    IN  IF token.k = "none" THEN Pass(0)
        ELSE IF token.k # "tok" THEN ShortCircuit(Error(401, "Invalid token"))
        ELSE LET r == decode_jwt(token.t, JWT_SECRET, JWT_ALGORITHM, time)
             IN  IF r.ok /\ \A t \in issued : t.payload.sub = r.payload.sub
                                                  => t.payload.iat <= r.payload.iat
                 THEN Pass(int(r.payload.sub))
                 ELSE IF ~ r.ok /\ r.exc = "ExpiredSignatureError"
                      THEN ShortCircuit(Error(401, "Token expired"))
                 ELSE ShortCircuit(Error(401, "Invalid token"))

auth_middleware(auth_header, time) ==
    LET token == extract_bearer_token(auth_header)
    IN  IF token.k = "none" THEN Pass(0)
        ELSE IF token.k # "tok" THEN ShortCircuit(Error(401, "Invalid token"))
        ELSE LET r == decode_jwt(token.t, JWT_SECRET, JWT_ALGORITHM, time)
             IN  IF r.ok THEN Pass(int(r.payload.sub))
                 ELSE IF r.exc = "ExpiredSignatureError"
                      THEN ShortCircuit(Error(401, "Token expired"))
                 ELSE ShortCircuit(Error(401, "Invalid token"))

require_auth(user_id) == user_id # 0

(***************************************************************************)
(* Storage: the users and advertisements tables of db.py.                  *)
(***************************************************************************)
AdColumns == {"id", "title", "description", "created_at", "user_id"}

isoformat(t) == <<"iso", t>>

NoRow == [found |-> FALSE]
Row(r) == [found |-> TRUE, row |-> r]

\* dict(row) of no row raises TypeError.
row_to_dict(r) == [r.row EXCEPT !.created_at = isoformat(@)]

ad_row(id) == [id |-> id, title |-> ads[id].title, description |-> ads[id].description,
               created_at |-> ads[id].created_at, user_id |-> ads[id].user_id]

\* Mutant: the ownership comparison is dropped.
is_owner_anyone(owner_row, user_id) == TRUE

\* int(owner_row["user_id"]) != int(user_id) is the refusal.
is_owner(owner_row, user_id) == owner_row.row.user_id = user_id

\* Mutant: a missing listing is read as a listing of nobody.
select_owner_default(ad_id) == IF ad_id \in DOMAIN ads THEN Row([user_id |-> ads[ad_id].user_id])
                               ELSE Row([user_id |-> 0])

select_owner(ad_id) == IF ad_id \in DOMAIN ads THEN Row([user_id |-> ads[ad_id].user_id])
                       ELSE NoRow

\* bcrypt: the salt is kept inside the hash.
Salts == {"s1"}
hashpw(password, salt) == [salt |-> salt, digest |-> <<salt, password>>]
\* Mutant: every password verifies.
checkpw_always(password, hash) == hash = hash

checkpw(password, hash) == hashpw(password, hash.salt) = hash

\* Mutant: the email column has no unique constraint.
email_taken_never(email) == email # email

email_taken(email) == \E u \in DOMAIN users : users[u].email = email

Extend(f, k, v) == [x \in DOMAIN f \cup {k} |-> IF x = k THEN v ELSE f[x]]
Remove(f, k) == [x \in DOMAIN f \ {k} |-> f[x]]

(***************************************************************************)
(* The state after create_app and on_startup: empty tables, no request in  *)
(* flight, no token issued.                                                *)
(***************************************************************************)
Idle == [op |-> "idle"]

Quiet == [op |-> "none", phase |-> "none", status |-> 0]

Init ==
    /\ users = << >>
    /\ user_seq = 0
    /\ ads = << >>
    /\ ad_seq = 0
    /\ issued = {}
    /\ now = 0
    /\ ticks = 0
    /\ pend = [p \in Procs |-> Idle]
    /\ last = Quiet

\* The step just taken, kept for the properties: the request as received
\* and the response sent (status 0 while none is sent yet); `handled` tells
\* whether the route handler was entered, `columns` names the columns of
\* the UPDATE statement the step executed.
Exchange(op, phase, hdr, ad_id, payload, user_id, handled, resp) ==
    [op |-> op, phase |-> phase, hdr |-> hdr, ad |-> ad_id, payload |-> payload,
     user_id |-> user_id, handled |-> handled, columns |-> {},
     status |-> resp.status, body |-> resp.body]

Proceeding == Response(0, [error |-> "none"])

db == <<users, user_seq, ads, ad_seq>>

\* The middleware answered: no handler runs, nothing is touched.
Refused(op, hdr, ad_id, payload, mw) ==
    /\ last' = Exchange(op, "whole", hdr, ad_id, payload, 0, FALSE, mw.resp)
    /\ UNCHANGED <<db, issued, now, ticks, pend>>

\* The handler answered without writing.
Answered(op, phase, hdr, ad_id, payload, user_id, outcome) ==
    /\ last' = Exchange(op, phase, hdr, ad_id, payload, user_id, TRUE, error_middleware(outcome))
    /\ UNCHANGED <<db, issued, now, ticks>>

(***************************************************************************)
(* POST /register (handlers.register).                                     *)
(***************************************************************************)
Register(hdr, payload) ==
    LET mw == auth_middleware(hdr, now)
        v == validate_register(payload)
    IN  IF ~ mw.pass THEN Refused("register", hdr, 0, payload, mw)
        ELSE IF ~ v.ok
        THEN /\ Answered("register", "whole", hdr, 0, payload, mw.user_id,
                         Returns(Response(400, [errors |-> v.errors])))
             /\ UNCHANGED pend
        ELSE \E salt \in Salts :
             LET id == user_seq + 1
                 row == [id |-> id, email |-> v.data.email, created_at |-> now]
             IN  IF email_taken(v.data.email)
                 THEN /\ Answered("register", "whole", hdr, 0, payload, mw.user_id,
                                  Returns(Error(409, "User already exists")))
                      /\ UNCHANGED pend
                 ELSE /\ user_seq' = id
                      /\ users' = Extend(users, id,
                                         [email |-> v.data.email,
                                          password_hash |-> hashpw(v.data.password, salt),
                                          created_at |-> now])
                      /\ last' = Exchange("register", "whole", hdr, 0, payload, mw.user_id, TRUE,
                                          Response(201, row_to_dict(Row(row))))
                      /\ UNCHANGED <<ads, ad_seq, issued, now, ticks, pend>>

(***************************************************************************)
(* POST /login (handlers.login).                                           *)
(***************************************************************************)
Login(hdr, payload) ==
    LET mw == auth_middleware(hdr, now)
        v == validate_login(payload)
    IN  IF ~ mw.pass THEN Refused("login", hdr, 0, payload, mw)
        ELSE IF ~ v.ok
        THEN /\ Answered("login", "whole", hdr, 0, payload, mw.user_id,
                         Returns(Response(400, [errors |-> v.errors])))
             /\ UNCHANGED pend
        ELSE IF ~ email_taken(v.data.email)
        THEN /\ Answered("login", "whole", hdr, 0, payload, mw.user_id,
                         Returns(Error(401, "Invalid credentials")))
             /\ UNCHANGED pend
        ELSE LET id == CHOOSE u \in DOMAIN users : users[u].email = v.data.email
                 token == create_jwt(id, JWT_SECRET, JWT_ALGORITHM, JWT_EXPIRES_MINUTES, now)
             IN  IF ~ checkpw(v.data.password, users[id].password_hash)
                 THEN /\ Answered("login", "whole", hdr, 0, payload, mw.user_id,
                                  Returns(Error(401, "Invalid credentials")))
                      /\ UNCHANGED pend
                 ELSE /\ issued' = issued \cup {token}
                      /\ last' = Exchange("login", "whole", hdr, 0, payload, mw.user_id, TRUE,
                                          Response(200, [token |-> token]))
                      /\ UNCHANGED <<db, now, ticks, pend>>

(***************************************************************************)
(* GET /advertisements/{ad_id} (handlers.get_advertisement).               *)
(***************************************************************************)
joined_row(id) == [id |-> id, title |-> ads[id].title, description |-> ads[id].description,
                   created_at |-> ads[id].created_at, user_id |-> ads[id].user_id,
                   author_email |-> users[ads[id].user_id].email]

GetAdvertisement(hdr, ad_id) ==
    LET mw == auth_middleware(hdr, now)
    IN  IF ~ mw.pass THEN Refused("get", hdr, ad_id, None, mw)
        ELSE /\ Answered("get", "whole", hdr, ad_id, None, mw.user_id,
                         IF ad_id \notin DOMAIN ads THEN Returns(Error(404, "Not found"))
                         ELSE Returns(Response(200, row_to_dict(Row(joined_row(ad_id))))))
             /\ UNCHANGED pend

(***************************************************************************)
(* POST /advertisements (handlers.create_advertisement).                   *)
(***************************************************************************)
\* Mutant: the owner is a fixed account, not the caller.
new_ad_fixed_owner(data, user_id, time) ==
    [title |-> data.title, description |-> data.description,
     created_at |-> time, user_id |-> 1]

\* INSERT INTO advertisements (title, description, user_id) VALUES ($1, $2, $3)
new_ad(data, user_id, time) ==
    [title |-> data.title, description |-> data.description,
     created_at |-> time, user_id |-> user_id]

CreateAdvertisement(hdr, payload) ==
    LET mw == auth_middleware(hdr, now)
        v == validate_create_ad(payload)
    IN  IF ~ mw.pass THEN Refused("create", hdr, 0, payload, mw)
        ELSE IF ~ require_auth(mw.user_id)
        THEN /\ Answered("create", "whole", hdr, 0, payload, mw.user_id,
                         RaisesHTTP(401, "Authorization required"))
             /\ UNCHANGED pend
        ELSE IF ~ v.ok
        THEN /\ Answered("create", "whole", hdr, 0, payload, mw.user_id,
                         Returns(Response(400, [errors |-> v.errors])))
             /\ UNCHANGED pend
        ELSE IF mw.user_id \notin DOMAIN users
        THEN /\ Answered("create", "whole", hdr, 0, payload, mw.user_id,
                         Raises("ForeignKeyViolationError"))
             /\ UNCHANGED pend
        ELSE LET id == ad_seq + 1
                 ad == new_ad(v.data, mw.user_id, now)
                 row == [id |-> id, title |-> ad.title, description |-> ad.description,
                         created_at |-> ad.created_at, user_id |-> ad.user_id]
             IN  /\ ad_seq' = id
                 /\ ads' = Extend(ads, id, ad)
                 /\ last' = Exchange("create", "whole", hdr, 0, payload, mw.user_id, TRUE,
                                     Response(201, row_to_dict(Row(row))))
                 /\ UNCHANGED <<users, user_seq, issued, now, ticks, pend>>

(***************************************************************************)
(* PUT /advertisements/{ad_id} (handlers.update_advertisement): the part   *)
(* up to and including the SELECT of the owner, then the UPDATE.           *)
(***************************************************************************)
\* Mutant: the fields are taken from the body as it came.
update_data_unfiltered(payload) ==
    LET given == {k \in DOMAIN payload : payload[k].t = "str"}
    IN  IF given = {} THEN validate_update_ad(payload)
        ELSE Validated([k \in given |-> strip(payload[k].s)])

\* data = validate_update_ad(payload), the handler's only source of fields.
update_data(payload) == validate_update_ad(payload)

\* The columns of the SET clause, one per item of data.
set_clause(data) == DOMAIN data

\* Mutant: the row is replaced, a column the request lacks is emptied.
apply_update_full(row, data) ==
    [c \in DOMAIN row |-> IF c \in DOMAIN data THEN data[c]
                          ELSE IF c \in {"title", "description"} THEN <<>> ELSE row[c]]

\* Mutant: the statement sets one of its columns and stops.
apply_update_partial(row, data) ==
    [c \in DOMAIN row |-> IF c \in DOMAIN data /\ c = (CHOOSE k \in DOMAIN data : TRUE)
                          THEN data[c] ELSE row[c]]

\* UPDATE advertisements SET ... WHERE id = ad_id RETURNING ...
apply_update(row, data) == [c \in DOMAIN row |-> IF c \in DOMAIN data THEN data[c] ELSE row[c]]

\* The response built from the row a statement returned.
row_response(r) == IF r.found THEN Returns(Response(200, row_to_dict(r)))
                   ELSE Raises("TypeError")

\* Mutant: the listing is looked up before the body is validated.
UpdateCheck_lookup_first(p, hdr, ad_id, payload) ==
    LET mw == auth_middleware(hdr, now)
        v == update_data(payload)
        owner_row == select_owner(ad_id)
    IN  /\ pend[p] = Idle
        /\ IF ~ mw.pass THEN Refused("update", hdr, ad_id, payload, mw)
           ELSE IF ~ require_auth(mw.user_id)
           THEN /\ Answered("update", "check", hdr, ad_id, payload, mw.user_id,
                            RaisesHTTP(401, "Authorization required"))
                /\ UNCHANGED pend
           ELSE IF ~ owner_row.found
           THEN /\ Answered("update", "check", hdr, ad_id, payload, mw.user_id,
                            Returns(Error(404, "Not found")))
                /\ UNCHANGED pend
           ELSE IF ~ is_owner(owner_row, mw.user_id)
           THEN /\ Answered("update", "check", hdr, ad_id, payload, mw.user_id,
                            Returns(Error(403, "Forbidden")))
                /\ UNCHANGED pend
           ELSE IF ~ v.ok
           THEN /\ Answered("update", "check", hdr, ad_id, payload, mw.user_id,
                            Returns(Response(400, [errors |-> v.errors])))
                /\ UNCHANGED pend
           ELSE /\ pend' = [pend EXCEPT ![p] = [op |-> "update", user_id |-> mw.user_id,
                                                ad_id |-> ad_id, payload |-> payload,
                                                data |-> v.data]]
                /\ last' = Exchange("update", "check", hdr, ad_id, payload, mw.user_id, TRUE,
                                    Proceeding)
                /\ UNCHANGED <<db, issued, now, ticks>>

UpdateCheck(p, hdr, ad_id, payload) ==
    LET mw == auth_middleware(hdr, now)
        v == update_data(payload)
        owner_row == select_owner(ad_id)
    IN  /\ pend[p] = Idle
        /\ IF ~ mw.pass THEN Refused("update", hdr, ad_id, payload, mw)
           ELSE IF ~ require_auth(mw.user_id)
           THEN /\ Answered("update", "check", hdr, ad_id, payload, mw.user_id,
                            RaisesHTTP(401, "Authorization required"))
                /\ UNCHANGED pend
           ELSE IF ~ v.ok
           THEN /\ Answered("update", "check", hdr, ad_id, payload, mw.user_id,
                            Returns(Response(400, [errors |-> v.errors])))
                /\ UNCHANGED pend
           ELSE IF ~ owner_row.found
           THEN /\ Answered("update", "check", hdr, ad_id, payload, mw.user_id,
                            Returns(Error(404, "Not found")))
                /\ UNCHANGED pend
           ELSE IF ~ is_owner(owner_row, mw.user_id)
           THEN /\ Answered("update", "check", hdr, ad_id, payload, mw.user_id,
                            Returns(Error(403, "Forbidden")))
                /\ UNCHANGED pend
           ELSE /\ pend' = [pend EXCEPT ![p] = [op |-> "update", user_id |-> mw.user_id,
                                                ad_id |-> ad_id, payload |-> payload,
                                                data |-> v.data]]
                /\ last' = Exchange("update", "check", hdr, ad_id, payload, mw.user_id, TRUE,
                                    Proceeding)
                /\ UNCHANGED <<db, issued, now, ticks>>

UpdateExec(p) ==
    LET r == pend[p]
        columns == set_clause(r.data)
        found == r.ad_id \in DOMAIN ads
        new == apply_update(ads[r.ad_id], r.data)
        outcome == IF ~ (columns \subseteq AdColumns) THEN Raises("UndefinedColumnError")
                   ELSE IF found THEN row_response(Row([id |-> r.ad_id, title |-> new.title,
                                                        description |-> new.description,
                                                        created_at |-> new.created_at,
                                                        user_id |-> new.user_id]))
                   ELSE row_response(NoRow)
    IN  /\ r.op = "update"
        /\ pend' = [pend EXCEPT ![p] = Idle]
        /\ ads' = IF columns \subseteq AdColumns /\ found
                  THEN [ads EXCEPT ![r.ad_id] = new] ELSE ads
        /\ last' = [Exchange("update", "exec", NoHeader, r.ad_id, r.payload, r.user_id, TRUE,
                             error_middleware(outcome)) EXCEPT !.columns = columns]
        /\ UNCHANGED <<users, user_seq, ad_seq, issued, now, ticks>>

(***************************************************************************)
(* DELETE /advertisements/{ad_id} (handlers.delete_advertisement): the     *)
(* SELECT of the owner, then the DELETE.                                   *)
(***************************************************************************)
\* {"message": "Deleted", "id": row["id"]}: subscripting no row raises.
delete_response(r) == IF r.found THEN Returns(Response(200, [message |-> "Deleted", id |-> r.row.id]))
                      ELSE Raises("TypeError")

DeleteCheck(p, hdr, ad_id) ==
    LET mw == auth_middleware(hdr, now)
        owner_row == select_owner(ad_id)
    IN  /\ pend[p] = Idle
        /\ IF ~ mw.pass THEN Refused("delete", hdr, ad_id, None, mw)
           ELSE IF ~ require_auth(mw.user_id)
           THEN /\ Answered("delete", "check", hdr, ad_id, None, mw.user_id,
                            RaisesHTTP(401, "Authorization required"))
                /\ UNCHANGED pend
           ELSE IF ~ owner_row.found
           THEN /\ Answered("delete", "check", hdr, ad_id, None, mw.user_id,
                            Returns(Error(404, "Not found")))
                /\ UNCHANGED pend
           ELSE IF ~ is_owner(owner_row, mw.user_id)
           THEN /\ Answered("delete", "check", hdr, ad_id, None, mw.user_id,
                            Returns(Error(403, "Forbidden")))
                /\ UNCHANGED pend
           ELSE /\ pend' = [pend EXCEPT ![p] = [op |-> "delete", user_id |-> mw.user_id,
                                                ad_id |-> ad_id]]
                /\ last' = Exchange("delete", "check", hdr, ad_id, None, mw.user_id, TRUE,
                                    Proceeding)
                /\ UNCHANGED <<db, issued, now, ticks>>

DeleteExec(p) ==
    LET r == pend[p]
        found == r.ad_id \in DOMAIN ads
        outcome == delete_response(IF found THEN Row([id |-> r.ad_id]) ELSE NoRow)
    IN  /\ r.op = "delete"
        /\ pend' = [pend EXCEPT ![p] = Idle]
        /\ ads' = IF found THEN Remove(ads, r.ad_id) ELSE ads
        /\ last' = Exchange("delete", "exec", NoHeader, r.ad_id, None, r.user_id, TRUE,
                            error_middleware(outcome))
        /\ UNCHANGED <<users, user_seq, ad_seq, issued, now, ticks>>

(***************************************************************************)
(* The id of a listing in the path, {ad_id:\d+}: a run of digits of any    *)
(* length.  int() takes it whole; the statement's parameter is bound to an *)
(* INTEGER column (id SERIAL), and binding a value beyond 32 bits raises   *)
(* DataError in the driver before the statement is sent.                   *)
(***************************************************************************)
Int4MaxDigits == <<"2", "1", "4", "7", "4", "8", "3", "6", "4", "7">>

RECURSIVE significant(_)
significant(segment) == IF Len(segment) > 1 /\ segment[1] = "0" THEN significant(Tail(segment))
                        ELSE segment

\* a > b for two runs of digits of one length.
RECURSIVE digits_greater(_, _)
digits_greater(a, b) ==
    IF a = <<>> THEN FALSE
    ELSE IF a[1] # b[1] THEN DigitVal(a[1]) > DigitVal(b[1])
    ELSE digits_greater(Tail(a), Tail(b))

out_of_int4(segment) ==
    \/ Len(significant(segment)) > Len(Int4MaxDigits)
    \/ /\ Len(significant(segment)) = Len(Int4MaxDigits)
       /\ digits_greater(significant(segment), Int4MaxDigits)

\* The exchange of a request whose id is beyond the column: ad is 0, the
\* digits of the path are kept in segment.
Beyond(op, hdr, segment, payload, user_id, handled, resp) ==
    [op |-> op, phase |-> "check", hdr |-> hdr, ad |-> 0, payload |-> payload,
     user_id |-> user_id, handled |-> handled, columns |-> {},
     status |-> resp.status, body |-> resp.body, segment |-> segment]

\* update_advertisement with such an id: the SELECT of the owner raises.
UpdateBeyond(p, hdr, segment, payload) ==
    LET mw == auth_middleware(hdr, now)
        v == update_data(payload)
    IN  /\ pend[p] = Idle
        /\ out_of_int4(segment)
        /\ last' = IF ~ mw.pass THEN Beyond("update", hdr, segment, payload, 0, FALSE, mw.resp)
                   ELSE IF ~ require_auth(mw.user_id)
                   THEN Beyond("update", hdr, segment, payload, mw.user_id, TRUE,
                               error_middleware(RaisesHTTP(401, "Authorization required")))
                   ELSE IF ~ v.ok
                   THEN Beyond("update", hdr, segment, payload, mw.user_id, TRUE,
                               Response(400, [errors |-> v.errors]))
                   ELSE Beyond("update", hdr, segment, payload, mw.user_id, TRUE,
                               error_middleware(Raises("DataError")))
        /\ UNCHANGED <<db, issued, now, ticks, pend>>

\* delete_advertisement with such an id.
DeleteBeyond(p, hdr, segment) ==
    LET mw == auth_middleware(hdr, now)
    IN  /\ pend[p] = Idle
        /\ out_of_int4(segment)
        /\ last' = IF ~ mw.pass THEN Beyond("delete", hdr, segment, None, 0, FALSE, mw.resp)
                   ELSE IF ~ require_auth(mw.user_id)
                   THEN Beyond("delete", hdr, segment, None, mw.user_id, TRUE,
                               error_middleware(RaisesHTTP(401, "Authorization required")))
                   ELSE Beyond("delete", hdr, segment, None, mw.user_id, TRUE,
                               error_middleware(Raises("DataError")))
        /\ UNCHANGED <<db, issued, now, ticks, pend>>

\* PUT and DELETE /advertisements/{segment}.
UpdateRequest(p, hdr, segment, payload) ==
    IF out_of_int4(segment) THEN UpdateBeyond(p, hdr, segment, payload)
    ELSE UpdateCheck(p, hdr, int(segment), payload)

DeleteRequest(p, hdr, segment) ==
    IF out_of_int4(segment) THEN DeleteBeyond(p, hdr, segment)
    ELSE DeleteCheck(p, hdr, int(segment))

(***************************************************************************)
(* Cancellation of a request task (asyncio.CancelledError raised at the    *)
(* await of its UPDATE or DELETE statement): the task ends with no         *)
(* response; the statement it had sent has run as a whole or not at all.   *)
(* A task cancelled before that await has changed nothing.                 *)
(***************************************************************************)
Dropped(r) == [Exchange(r.op, "cancelled", NoHeader, r.ad_id, None, r.user_id, FALSE, Proceeding)
                  EXCEPT !.payload = IF r.op = "update" THEN r.payload ELSE None]

CancelUpdate(p) ==
    LET r == pend[p]
        found == r.ad_id \in DOMAIN ads
    IN  /\ r.op = "update"
        /\ pend' = [pend EXCEPT ![p] = Idle]
        /\ \E committed \in BOOLEAN :
              ads' = IF committed /\ set_clause(r.data) \subseteq AdColumns /\ found
                     THEN [ads EXCEPT ![r.ad_id] = apply_update(ads[r.ad_id], r.data)]
                     ELSE ads
        /\ last' = Dropped(r)
        /\ UNCHANGED <<users, user_seq, ad_seq, issued, now, ticks>>

CancelDelete(p) ==
    LET r == pend[p]
        found == r.ad_id \in DOMAIN ads
    IN  /\ r.op = "delete"
        /\ pend' = [pend EXCEPT ![p] = Idle]
        /\ \E committed \in BOOLEAN :
              ads' = IF committed /\ found THEN Remove(ads, r.ad_id) ELSE ads
        /\ last' = Dropped(r)
        /\ UNCHANGED <<users, user_seq, ad_seq, issued, now, ticks>>

(***************************************************************************)
(* The clock read by time.time() and CURRENT_TIMESTAMP, in seconds.  It    *)
(* advances by one second or to one second short of a token's lifetime.    *)
(***************************************************************************)
TokenLifetime == JWT_EXPIRES_MINUTES * SecondsPerMinute

TickSteps == {1, TokenLifetime - 1}

Tick(d) ==
    /\ ticks' = ticks + 1
    /\ now' = now + d
    /\ last' = Quiet
    /\ UNCHANGED <<db, issued, pend>>

(***************************************************************************)
(* GET /advertisements (handlers.get_all_advertisements) behind            *)
(* validators.parse_pagination.  A query maps the parameters it carries    *)
(* to their raw strings.                                                   *)
(***************************************************************************)
LimitDefault == 50
LimitMax == 200

is_digit(c) == \E d \in DOMAIN DigitChars : DigitChars[d] = c

signed(s) == s # <<>> /\ s[1] \in {"-", "+"}

digits_of(s) == IF signed(strip(s)) THEN Tail(strip(s)) ELSE strip(s)

\* Single underscores may separate the digits of an int literal.
plain(s) == SelectSeq(s, LAMBDA c : c # "_")

underscores_ok(s) ==
    /\ s[1] # "_"
    /\ s[Len(s)] # "_"
    /\ \A i \in 1..(Len(s) - 1) : ~ (s[i] = "_" /\ s[i + 1] = "_")

\* int(value) succeeds on optional blanks, an optional sign and digits.
is_int_literal(s) ==
    /\ digits_of(s) # <<>>
    /\ underscores_ok(digits_of(s))
    /\ \A i \in DOMAIN digits_of(s) : is_digit(digits_of(s)[i]) \/ digits_of(s)[i] = "_"

parse_int(s) == IF signed(strip(s)) /\ strip(s)[1] = "-" THEN 0 - int(plain(digits_of(s)))
                ELSE int(plain(digits_of(s)))

to_int(query, key, default) ==
    IF key \notin DOMAIN query THEN default
    ELSE IF is_int_literal(query[key]) THEN parse_int(query[key])
    ELSE default

\* Mutant: a limit below 1 is let through unless it is negative.
parse_pagination_no_floor(query) ==
    LET limit0 == to_int(query, "limit", LimitDefault)
        offset0 == to_int(query, "offset", 0)
        limit1 == IF limit0 < 0 THEN LimitDefault ELSE limit0
        limit2 == IF limit1 > LimitMax THEN LimitMax ELSE limit1
    IN  [limit |-> limit2, offset |-> offset0]

\* Mutant: a limit above the maximum is reduced by the maximum.
parse_pagination_wrap(query) ==
    LET limit0 == to_int(query, "limit", LimitDefault)
        offset0 == to_int(query, "offset", 0)
        limit1 == IF limit0 < 1 THEN LimitDefault ELSE limit0
        limit2 == IF limit1 > LimitMax THEN limit1 - LimitMax ELSE limit1
        offset1 == IF offset0 < 0 THEN 0 ELSE offset0
    IN  [limit |-> limit2, offset |-> offset1]

parse_pagination(query) ==
    LET limit0 == to_int(query, "limit", LimitDefault)
        offset0 == to_int(query, "offset", 0)
        limit1 == IF limit0 < 1 THEN LimitDefault ELSE limit0
        limit2 == IF limit1 > LimitMax THEN LimitMax ELSE limit1
        offset1 == IF offset0 < 0 THEN 0 ELSE offset0
    IN  [limit |-> limit2, offset |-> offset1]

\* ORDER BY a.created_at DESC: rows of equal created_at come in any order.
Orders == {o \in [1..Cardinality(DOMAIN ads) -> DOMAIN ads] :
             /\ \A i, j \in DOMAIN o : i # j => o[i] # o[j]
             /\ \A i, j \in DOMAIN o : i < j => ads[o[i]].created_at >= ads[o[j]].created_at}

\* LIMIT limit OFFSET offset
window(o, limit, offset) ==
    SubSeq(o, offset + 1, IF offset + limit < Len(o) THEN offset + limit ELSE Len(o))

GetAllAdvertisements(hdr, query) ==
    LET mw == auth_middleware(hdr, now)
        page == parse_pagination(query)
    IN  IF ~ mw.pass THEN Refused("list", hdr, 0, query, mw)
        ELSE \E o \in Orders :
             LET rows == window(o, page.limit, page.offset)
                 items == [i \in DOMAIN rows |-> row_to_dict(Row(joined_row(rows[i])))]
             IN  /\ Answered("list", "whole", hdr, 0, query, mw.user_id,
                             Returns(Response(200, [items |-> items, limit |-> page.limit,
                                                    offset |-> page.offset, count |-> Len(rows)])))
                 /\ UNCHANGED pend

(***************************************************************************)
(* Requests of the clients.                                                *)
(***************************************************************************)
EmailA == <<"a", "@", "b", ".", "c">>
EmailAUpper == <<" ", "A", "@", "b", ".", "c">>
EmailX == <<"x", "@", "y", ".", "z">>
EmailBad == <<"a", "b">>
Password1 == <<"s", "e", "c", "r", "e", "t">>
Password2 == <<"h", "u", "n", "t", "e", "r">>
PasswordShort == <<"p", "w">>

Credentials(email, password) == [email |-> Str(email), password |-> Str(password)]

TextA == <<" ", "a", " ">>
TextB == <<"b">>
TextBlank == <<" ">>
TextLong == [i \in 1..(MaxTitleLen + 1) |-> "c"]
TextOwner == <<"x">>

\* The bodies that carry, for each key of `choices`, one of its values or
\* not the key at all.
Bodies(choices) ==
    UNION {{b \in [K -> UNION {choices[k] : k \in K}] : \A k \in K : b[k] \in choices[k]}
           : K \in SUBSET DOMAIN choices}

Bearer(token) == Header(<<Word(<<"B", "e", "a", "r", "e", "r">>), SP, Tok(token)>>)


(***************************************************************************)
(* Spec: two clients register, log in and create, update and delete        *)
(* listings, each request with one of the tokens issued so far or with no  *)
(* header.  Bodies carry keys the client has no say over (owner, user_id). *)
(***************************************************************************)
ClientHeaders == {NoHeader} \cup {Bearer(t) : t \in issued}

TwoClients == {Credentials(EmailA, Password1), Credentials(EmailX, Password1)}

OwnCreateBodies == {[title |-> Str(TextA), description |-> Str(TextB)],
                    [title |-> Str(TextA), description |-> Str(TextB), owner |-> Str(TextOwner)],
                    [title |-> Str(TextA), description |-> Str(TextB), user_id |-> Num(2)]}

OwnUpdateBodies == {[title |-> Str(TextB)], [title |-> Str(TextBlank)]}

OwnAdIds == 1..(MaxAds + 1)

Next ==
    \/ /\ user_seq < MaxUsers
       /\ \E body \in TwoClients : Register(NoHeader, body)
    \/ /\ Cardinality(issued) < MaxTokens
       /\ \E body \in TwoClients : Login(NoHeader, body)
    \/ /\ ad_seq < MaxAds
       /\ \E hdr \in ClientHeaders, body \in OwnCreateBodies : CreateAdvertisement(hdr, body)
    \/ \E hdr \in ClientHeaders, ad_id \in OwnAdIds, body \in OwnUpdateBodies :
          UpdateCheck(1, hdr, ad_id, body)
    \/ UpdateExec(1)
    \/ \E hdr \in ClientHeaders, ad_id \in OwnAdIds : DeleteCheck(1, hdr, ad_id)
    \/ DeleteExec(1)

Spec == Init /\ [][Next]_vars

(***************************************************************************)
(* SpecFrame: one client edits its listings with partial bodies: one or    *)
(* both fields, padded values, an explicit null, keys outside the          *)
(* allow-list.                                                             *)
(***************************************************************************)
OneClient == {Credentials(EmailA, Password1)}

FrameCreateBodies == {[title |-> Str(TextA), description |-> Str(TextB)]}

FrameUpdateBodies == {[title |-> Str(TextB)],
                      [description |-> Str(TextA), owner |-> Str(TextOwner)],
                      [title |-> Str(TextA), description |-> Str(TextB)],
                      [title |-> Str(TextB), description |-> None],
                      [owner |-> Str(TextOwner), user_id |-> Num(2)]}

FrameAdIds == 1..MaxAds

NextFrame ==
    \/ /\ user_seq < MaxUsers
       /\ \E body \in OneClient : Register(NoHeader, body)
    \/ /\ Cardinality(issued) < MaxTokens
       /\ \E body \in OneClient : Login(NoHeader, body)
    \/ /\ ad_seq < MaxAds
       /\ \E hdr \in ClientHeaders, body \in FrameCreateBodies : CreateAdvertisement(hdr, body)
    \/ \E hdr \in ClientHeaders, ad_id \in FrameAdIds, body \in FrameUpdateBodies :
          UpdateCheck(1, hdr, ad_id, body)
    \/ UpdateExec(1)

SpecFrame == Init /\ [][NextFrame]_vars

(***************************************************************************)
(* SpecRace: one client runs updates and deletes of its listings two at a  *)
(* time: a request may execute its statement after another request ran     *)
(* between its SELECT and that statement.                                  *)
(***************************************************************************)
RaceUpdateBodies == {[title |-> Str(TextB)]}

\* A request task takes the first free slot.
FreeSlot(p) == pend[p] = Idle /\ \A q \in Procs : q < p => pend[q] # Idle

NextRace ==
    \/ /\ user_seq < MaxUsers
       /\ \E body \in OneClient : Register(NoHeader, body)
    \/ /\ Cardinality(issued) < MaxTokens
       /\ \E body \in OneClient : Login(NoHeader, body)
    \/ /\ ad_seq < MaxAds
       /\ \E hdr \in ClientHeaders, body \in FrameCreateBodies : CreateAdvertisement(hdr, body)
    \/ \E p \in Procs, hdr \in ClientHeaders, ad_id \in FrameAdIds, body \in RaceUpdateBodies :
          FreeSlot(p) /\ UpdateCheck(p, hdr, ad_id, body)
    \/ \E p \in Procs : UpdateExec(p)
    \/ \E p \in Procs, hdr \in ClientHeaders, ad_id \in FrameAdIds :
          FreeSlot(p) /\ DeleteCheck(p, hdr, ad_id)
    \/ \E p \in Procs : DeleteExec(p)

SpecRace == Init /\ [][NextRace]_vars

(***************************************************************************)
(* SpecToken: one client logs in as the clock advances and presents, on a  *)
(* read and on a delete, the tokens it was given and the tokens it can     *)
(* make itself: signed with a key of its own, declaring another algorithm  *)
(* or none, or an issued token with its claims or its header altered.      *)
(***************************************************************************)
AttackerSecret == "attacker"

ForgedClaims == {[sub |-> str(u), iat |-> now, exp |-> e] :
                    u \in 1..MaxUsers, e \in {0, now + TokenLifetime}}

Forged ==
    ({jwt_encode(c, AttackerSecret, a) : c \in ForgedClaims, a \in {"HS256", "HS512", "none"}}
     \cup {[t EXCEPT !.alg = a] : t \in issued, a \in {"HS512", "none"}}
     \cup {[t EXCEPT !.payload.sub = str(u)] : t \in issued, u \in 1..MaxUsers})
    \ issued

TokenHeaders == {Bearer(t) : t \in issued \cup Forged}

NextToken ==
    \/ /\ user_seq < MaxUsers
       /\ \E body \in OneClient : Register(NoHeader, body)
    \/ /\ Cardinality(issued) < MaxTokens
       /\ \E body \in OneClient : Login(NoHeader, body)
    \/ /\ ticks < MaxTicks
       /\ \E d \in TickSteps : Tick(d)
    \/ \E hdr \in TokenHeaders : GetAdvertisement(hdr, 1)
    \/ \E hdr \in TokenHeaders : DeleteCheck(1, hdr, 1)

SpecToken == Init /\ [][NextToken]_vars

(***************************************************************************)
(* SpecRefuse: one client sends requests on all seven routes with Bearer   *)
(* headers, in three spellings of the scheme, that carry an issued token   *)
(* (which expires as the clock advances), a token it signed itself or a    *)
(* word that is no token.                                                  *)
(***************************************************************************)
MaxRefuseAds == 1
MaxRefuseTokens == 1
MaxRefuseTicks == 1

Scheme(word, token_piece) == Header(<<Word(word), SP, token_piece>>)

BearerLower == <<"b", "e", "a", "r", "e", "r">>
BearerUpper == <<"B", "E", "A", "R", "E", "R">>

RefuseForged == {jwt_encode([sub |-> str(1), iat |-> now, exp |-> now + TokenLifetime],
                            AttackerSecret, JWT_ALGORITHM)}

RefuseHeaders ==
    {Bearer(t) : t \in issued}
    \cup {Scheme(BearerLower, Tok(t)) : t \in RefuseForged}
    \cup {Header(<<SP, Word(BearerUpper), SP, SP, Word(<<"x">>), SP>>)}

RefuseAdIds == 1..MaxRefuseAds

NoQuery == <<>>

NextRefuse ==
    \/ /\ user_seq < MaxUsers
       /\ \E hdr \in RefuseHeaders \cup {NoHeader}, body \in OneClient : Register(hdr, body)
    \/ /\ Cardinality(issued) < MaxRefuseTokens
       /\ \E hdr \in RefuseHeaders \cup {NoHeader}, body \in OneClient : Login(hdr, body)
    \/ /\ ticks < MaxRefuseTicks
       /\ Tick(TokenLifetime)
    \/ \E hdr \in RefuseHeaders : GetAllAdvertisements(hdr, NoQuery)
    \/ \E hdr \in RefuseHeaders, ad_id \in RefuseAdIds : GetAdvertisement(hdr, ad_id)
    \/ /\ ad_seq < MaxRefuseAds
       /\ \E hdr \in RefuseHeaders, body \in FrameCreateBodies : CreateAdvertisement(hdr, body)
    \/ \E hdr \in RefuseHeaders, ad_id \in RefuseAdIds, body \in RaceUpdateBodies :
          UpdateCheck(1, hdr, ad_id, body)
    \/ UpdateExec(1)
    \/ \E hdr \in RefuseHeaders, ad_id \in RefuseAdIds : DeleteCheck(1, hdr, ad_id)
    \/ DeleteExec(1)

SpecRefuse == Init /\ [][NextRefuse]_vars

(***************************************************************************)
(* SpecAnon: one client, holding a token that is good, sends requests on   *)
(* all seven routes with no Authorization header or with one that is not   *)
(* "Bearer <token>": empty, blank, the scheme alone, another scheme, the   *)
(* token alone, three parts.  It creates its listings with a proper        *)
(* header.                                                                 *)
(***************************************************************************)
Basic == <<"B", "a", "s", "i", "c">>

AnonHeaders ==
    {NoHeader, Header(<<>>), Header(<<SP>>), Header(<<Word(BearerLower)>>)}
    \cup {Scheme(Basic, Tok(t)) : t \in issued}
    \cup {Header(<<Tok(t)>>) : t \in issued}
    \cup {Header(<<Word(BearerLower), SP, Tok(t), SP, Word(<<"x">>)>>) : t \in issued}

NextAnon ==
    \/ /\ user_seq < MaxUsers
       /\ \E hdr \in AnonHeaders, body \in OneClient : Register(hdr, body)
    \/ /\ Cardinality(issued) < MaxTokens
       /\ \E hdr \in AnonHeaders, body \in OneClient : Login(hdr, body)
    \/ \E hdr \in AnonHeaders : GetAllAdvertisements(hdr, NoQuery)
    \/ \E hdr \in AnonHeaders, ad_id \in OwnAdIds : GetAdvertisement(hdr, ad_id)
    \/ /\ ad_seq < MaxAds
       /\ \E hdr \in AnonHeaders \cup ClientHeaders, body \in FrameCreateBodies :
             CreateAdvertisement(hdr, body)
    \/ \E hdr \in AnonHeaders, ad_id \in OwnAdIds, body \in RaceUpdateBodies :
          UpdateCheck(1, hdr, ad_id, body)
    \/ \E hdr \in AnonHeaders, ad_id \in OwnAdIds : DeleteCheck(1, hdr, ad_id)

SpecAnon == Init /\ [][NextAnon]_vars

(***************************************************************************)
(* SpecPage: one client fills the store and anyone lists it with raw limit *)
(* and offset parameters: absent, empty, no number, a fraction, negative,  *)
(* zero, padded, signed, with an underscore, at and above the maximum,     *)
(* large.  A client may also send back the pair a listing answered.        *)
(***************************************************************************)
LimitRaws == {<<>>, <<"a">>, <<"1", ".", "5">>, <<"-", "1">>, <<"0">>, <<"1">>, <<" ", "2", " ">>,
              <<"+", "3">>, <<"1", "_", "0">>, <<"2", "0", "0">>, <<"2", "0", "1">>,
              <<"9", "9", "9">>, <<"1", "0", "0", "0", "0", "0", "0">>}

OffsetRaws == {<<>>, <<"a">>, <<"-", "1">>, <<"-", "0">>, <<"0">>, <<"1">>, <<"2">>,
               <<"1", "0", "0", "0", "0", "0", "0">>}

\* Each parameter alone in all its forms, and some pairs of both.
PageQueries ==
    Bodies([limit |-> LimitRaws]) \cup Bodies([offset |-> OffsetRaws])
    \cup {[limit |-> l, offset |-> o] : l \in {<<"0">>, <<" ", "2", " ">>, <<"1", "_", "0">>, <<"9", "9", "9">>},
                                        o \in {<<"-", "1">>, <<"1">>, <<"1", "0", "0", "0", "0", "0", "0">>}}

\* The query string a client builds from the pair of a listing response.
Echo(x) == [limit |-> str(x.body.limit), offset |-> str(x.body.offset)]

NextPage ==
    \/ /\ user_seq < MaxUsers
       /\ \E body \in OneClient : Register(NoHeader, body)
    \/ /\ Cardinality(issued) < MaxTokens
       /\ \E body \in OneClient : Login(NoHeader, body)
    \/ /\ ad_seq < MaxAds
       /\ \E hdr \in ClientHeaders, body \in FrameCreateBodies : CreateAdvertisement(hdr, body)
    \/ \E query \in PageQueries : GetAllAdvertisements(NoHeader, query)
    \/ /\ last.op = "list"
       /\ GetAllAdvertisements(NoHeader, Echo(last))

SpecPage == Init /\ [][NextPage]_vars

(***************************************************************************)
(* SpecPartial: one client edits its listings with bodies that carry no    *)
(* editable key, an editable key that is empty, blank or no string, or     *)
(* editable keys that are all null, next to bodies that are in order.      *)
(***************************************************************************)
TextEmpty == <<>>

PartialUpdateBodies ==
    {<<>>,
     [owner |-> Str(TextOwner)],
     [title |-> Str(TextEmpty)],
     [description |-> Str(TextBlank)],
     [title |-> Str(TextBlank), description |-> Str(TextA)],
     [title |-> Str(TextBlank), description |-> None],
     [title |-> Num(2)],
     [title |-> None],
     [title |-> None, description |-> None],
     [description |-> None, owner |-> Str(TextOwner)],
     [title |-> Str(TextB)]}

NextPartial ==
    \/ /\ user_seq < MaxUsers
       /\ \E body \in OneClient : Register(NoHeader, body)
    \/ /\ Cardinality(issued) < MaxTokens
       /\ \E body \in OneClient : Login(NoHeader, body)
    \/ /\ ad_seq < MaxAds
       /\ \E hdr \in ClientHeaders, body \in FrameCreateBodies : CreateAdvertisement(hdr, body)
    \/ \E hdr \in ClientHeaders, ad_id \in FrameAdIds, body \in PartialUpdateBodies :
          UpdateCheck(1, hdr, ad_id, body)
    \/ UpdateExec(1)

SpecPartial == Init /\ [][NextPartial]_vars

(***************************************************************************)
(* SpecLogin: two clients register with one of two passwords and log in    *)
(* with every pairing of a known or unknown email, as typed or padded and  *)
(* in capitals, and a right or wrong password.                             *)
(***************************************************************************)
LoginBodies == {Credentials(e, pw) : e \in {EmailA, EmailAUpper, EmailX},
                                     pw \in {Password1, Password2}}

RegisterBodies == {Credentials(e, pw) : e \in {EmailA, EmailX}, pw \in {Password1, Password2}}

NextLogin ==
    \/ /\ user_seq < MaxUsers
       /\ \E body \in RegisterBodies : Register(NoHeader, body)
    \/ /\ Cardinality(issued) < MaxTokens
       /\ \E body \in LoginBodies : Login(NoHeader, body)
    \/ /\ ticks < MaxTicks
       /\ Tick(1)

SpecLogin == Init /\ [][NextLogin]_vars

(***************************************************************************)
(* SpecRegister: clients register as the clock advances, two of them with  *)
(* the same email typed differently, others with an email or a password    *)
(* that is not in order.  Each register request runs one statement, the    *)
(* INSERT, so concurrent requests take effect in the order of their        *)
(* INSERTs.                                                                *)
(***************************************************************************)
RegisterAttempts == {Credentials(EmailA, Password1), Credentials(EmailAUpper, Password2),
                     Credentials(EmailX, Password1), Credentials(EmailBad, Password1),
                     Credentials(EmailA, PasswordShort)}

NextRegister ==
    \/ /\ user_seq < MaxUsers
       /\ \E body \in RegisterAttempts : Register(NoHeader, body)
    \/ /\ Cardinality(issued) < MaxTokens
       /\ \E body \in LoginBodies : Login(NoHeader, body)
    \/ /\ ticks < MaxTicks
       /\ Tick(1)

SpecRegister == Init /\ [][NextRegister]_vars

(***************************************************************************)
(* SpecCancel: one client updates and deletes its listings, two requests   *)
(* at a time, with two fields; a request may be cancelled while its         *)
(* statement is out; anyone reads the listings in between.                 *)
(***************************************************************************)
CancelUpdateBodies == {[title |-> Str(TextB), description |-> Str(TextA)]}

NextCancel ==
    \/ /\ user_seq < MaxUsers
       /\ \E body \in OneClient : Register(NoHeader, body)
    \/ /\ Cardinality(issued) < MaxTokens
       /\ \E body \in OneClient : Login(NoHeader, body)
    \/ /\ ad_seq < MaxAds
       /\ \E hdr \in ClientHeaders, body \in FrameCreateBodies : CreateAdvertisement(hdr, body)
    \/ \E p \in Procs, hdr \in ClientHeaders, ad_id \in FrameAdIds, body \in CancelUpdateBodies :
          FreeSlot(p) /\ UpdateCheck(p, hdr, ad_id, body)
    \/ \E p \in Procs : UpdateExec(p)
    \/ \E p \in Procs : CancelUpdate(p)
    \/ \E p \in Procs, hdr \in ClientHeaders, ad_id \in FrameAdIds :
          FreeSlot(p) /\ DeleteCheck(p, hdr, ad_id)
    \/ \E p \in Procs : DeleteExec(p)
    \/ \E p \in Procs : CancelDelete(p)
    \/ \E ad_id \in FrameAdIds : GetAdvertisement(NoHeader, ad_id)

SpecCancel == Init /\ [][NextCancel]_vars

(***************************************************************************)
(* SpecStateless: two clients register, log in and create a listing; then  *)
(* the clock advances to one second before the first tokens expire while   *)
(* they log in again and update and delete the listing, each request with  *)
(* any of the tokens issued so far.                                        *)
(***************************************************************************)
NextStateless ==
    \/ /\ user_seq < MaxUsers /\ ticks = 0
       /\ \E body \in TwoClients : Register(NoHeader, body)
    \/ /\ Cardinality(issued) < MaxTokens
       /\ \E body \in TwoClients : Login(NoHeader, body)
    \/ /\ ticks < MaxRefuseTicks
       /\ Tick(TokenLifetime - 1)
    \/ /\ ad_seq < MaxRefuseAds /\ ticks = 0
       /\ \E hdr \in ClientHeaders, body \in FrameCreateBodies : CreateAdvertisement(hdr, body)
    \/ \E hdr \in ClientHeaders, ad_id \in RefuseAdIds, body \in RaceUpdateBodies :
          UpdateCheck(1, hdr, ad_id, body)
    \/ UpdateExec(1)
    \/ \E hdr \in ClientHeaders, ad_id \in RefuseAdIds : DeleteCheck(1, hdr, ad_id)
    \/ DeleteExec(1)

SpecStateless == Init /\ [][NextStateless]_vars

(***************************************************************************)
(* SpecOrder: two clients update and delete, each request with no header,  *)
(* a token issued so far or a token signed by the client, a body that is   *)
(* in order, blank or empty, and in the path the id of a listing, an id    *)
(* not yet given, the largest INTEGER, or a number beyond it.              *)
(***************************************************************************)
OrderHeaders == ClientHeaders \cup {Bearer(t) : t \in RefuseForged}

OrderUpdateBodies == {[title |-> Str(TextB)], [title |-> Str(TextBlank)], <<>>}

OrderSegments == {str(n) : n \in 1..(MaxRefuseAds + 1)}
                 \cup {Int4MaxDigits,
                       <<"0">> \o Int4MaxDigits,
                       <<"2", "1", "4", "7", "4", "8", "3", "6", "4", "8">>,
                       <<"1", "0", "0", "0", "0", "0", "0", "0", "0", "0", "0">>}

NextOrder ==
    \/ /\ user_seq < MaxUsers
       /\ \E body \in TwoClients : Register(NoHeader, body)
    \/ /\ Cardinality(issued) < MaxTokens
       /\ \E body \in TwoClients : Login(NoHeader, body)
    \/ /\ ad_seq < MaxRefuseAds
       /\ \E hdr \in ClientHeaders, body \in FrameCreateBodies : CreateAdvertisement(hdr, body)
    \/ \E hdr \in OrderHeaders, segment \in OrderSegments, body \in OrderUpdateBodies :
          UpdateRequest(1, hdr, segment, body)
    \/ UpdateExec(1)
    \/ \E hdr \in OrderHeaders, segment \in OrderSegments : DeleteRequest(1, hdr, segment)
    \/ DeleteExec(1)

SpecOrder == Init /\ [][NextOrder]_vars

(***************************************************************************)
(* Properties.  The caller of a request is read off its header: the user   *)
(* a token was issued to, while the token is issued and not expired.       *)
(***************************************************************************)
BearerToken(h) == h.raw[Len(h.raw)].t

Authenticated(h) ==
    /\ h.present
    /\ BearerToken(h) \in issued
    /\ now < BearerToken(h).payload.exp

Caller(h) == CHOOSE u \in 1..(MaxUsers + 1) : str(u) = BearerToken(h).payload.sub

\* The step just taken received an update or a delete request.
MutationArrived(x) == x.op \in {"update", "delete"} /\ x.phase # "exec"

PassesValidation(x) == x.op = "update" => validate_update_ad(x.payload).ok

\* C1: an update (with a payload that passes validation) or a delete of a
\* listing by an authenticated user who is not its owner is answered 403
\* and leaves the listing, and the whole store, as it was.
C1_NonOwnerForbidden ==
    [][(/\ MutationArrived(last')
        /\ Authenticated(last'.hdr)
        /\ PassesValidation(last')
        /\ last'.ad \in DOMAIN ads
        /\ ads[last'.ad].user_id # Caller(last'.hdr))
       => (/\ last'.status = 403
           /\ ads' = ads
           /\ pend' = pend)]_vars

\* C1 witness: a non-owner's delete of a listing its owner had already
\* updated was answered 403 and the listing is there.
C1_Witness ==
    /\ last.op = "delete"
    /\ last.status = 403
    /\ last.ad \in DOMAIN ads
    /\ ads[last.ad].title = TextB
    /\ ads[last.ad].user_id # Caller(last.hdr)

\* C2, for the callers it can hold for: an update or delete by an
\* authenticated caller (an update: with a body that passes validation) of
\* an id under which no listing is stored is answered 404.
C2_AlwaysNotFound ==
    (/\ MutationArrived(last)
     /\ Authenticated(last.hdr)
     /\ PassesValidation(last)
     /\ last.ad \notin DOMAIN ads)
       => last.status = 404

\* C3: a listing enters the store only through a create request of an
\* authenticated caller and is owned by that caller, whatever owner or
\* user_id the body names or omits; the owner never changes afterwards.
BodyFieldsValid(payload) ==
    validate_create_ad(Restrict(payload, DOMAIN payload \cap {"title", "description"})).ok

ValidatedFields(body) == {k \in DOMAIN body \cap {"title", "description"} : body[k].t = "str"}

C10_UpdateFrame ==
    [][(last'.op = "update" /\ last'.phase = "exec" /\ last'.status = 200)
       => LET id == last'.ad
              body == last'.payload
          IN  /\ ValidatedFields(body) # {}
              /\ id \in DOMAIN ads
              /\ DOMAIN ads' = DOMAIN ads
              /\ pend[1].user_id = ads[id].user_id
              /\ \A k \in ValidatedFields(body) : ads'[id][k] = strip(body[k].s)
              /\ \A k \in DOMAIN ads[id] \ ValidatedFields(body) : ads'[id][k] = ads[id][k]
              /\ \A other \in DOMAIN ads \ {id} : ads'[other] = ads[other]
              /\ users' = users
              /\ last'.body = [id |-> id, title |-> ads'[id].title,
                               description |-> ads'[id].description,
                               created_at |-> isoformat(ads'[id].created_at),
                               user_id |-> ads'[id].user_id]]_vars

\* C10 witness: an update of the description alone, from a padded value,
\* kept the title an earlier update had set, next to an untouched listing.
C10_Witness ==
    /\ last.op = "update"
    /\ last.phase = "exec"
    /\ last.status = 200
    /\ DOMAIN last.payload = {"description", "owner"}
    /\ ads[last.ad].title = <<"b">>
    /\ ads[last.ad].description = <<"a">>
    /\ \E other \in DOMAIN ads \ {last.ad} :
          ads[other].title = <<"a">> /\ ads[other].description = <<"b">>

\* C8: every response to an update is 200, 400, 401, 403 or 404 and every
\* response to a delete is 200, 401, 403 or 404, under every interleaving.
C8_NoInternalError ==
    /\ (last.op = "update" /\ last.status # 0) => last.status \in {200, 400, 401, 403, 404}
    /\ (last.op = "delete" /\ last.status # 0) => last.status \in {200, 401, 403, 404}

\* C4: a token issued to user u at time t has exp = t + ttl; presented at
\* a time before its exp it resolves to u, at or after its exp it is
\* refused as expired, by the exp it carries.
Presented(x) == x.op \in {"get", "delete"} /\ x.phase # "exec" /\ x.hdr.present

C4_TokenLifetime ==
    /\ (last.op = "login" /\ last.status = 200)
          => (/\ last.body.token \in issued
              /\ last.body.token.payload.iat = now
              /\ last.body.token.payload.exp = now + 60 * 60
              /\ \E u \in DOMAIN users :
                    /\ users[u].email = lower(strip(last.payload.email.s))
                    /\ last.body.token.payload.sub = str(u))
    /\ \A t \in issued : t.payload.exp = t.payload.iat + 60 * 60 /\ t.payload.iat <= now
    /\ (Presented(last) /\ BearerToken(last.hdr) \in issued)
          => IF now < BearerToken(last.hdr).payload.exp
             THEN /\ last.handled
                  /\ last.user_id = Caller(last.hdr)
                  /\ last.user_id \in DOMAIN users
                  /\ last.status = 404
             ELSE /\ ~ last.handled
                  /\ last.status = 401
                  /\ last.body = [error |-> "Token expired"]

\* C4 witness: a token was accepted in the last second before its exp.
C4_Witness ==
    /\ Presented(last)
    /\ BearerToken(last.hdr) \in issued
    /\ now = BearerToken(last.hdr).payload.exp - 1
    /\ last.user_id = 1
    /\ last.status = 404

\* C5: a token that is not signed with the server's secret under the
\* server's algorithm is refused as invalid, whatever its claims, and the
\* request gets no identity and reaches no handler.
Genuine(t) == t.alg = "HS256" /\ t.sig = <<"change_me", "HS256", t.payload>>

C5_ForgedInvalid ==
    /\ \A t \in issued : Genuine(t)
    /\ \A t \in Forged : ~ Genuine(t)
    /\ (Presented(last) /\ ~ Genuine(BearerToken(last.hdr)))
          => (/\ ~ last.handled
              /\ last.user_id = 0
              /\ last.status = 401
              /\ last.body = [error |-> "Invalid token"])

\* C5 witness: a delete carrying an issued, unexpired token re-declared as
\* "none" was refused.
C5_Witness ==
    /\ last.op = "delete"
    /\ last.hdr.present
    /\ BearerToken(last.hdr).alg = "none"
    /\ [BearerToken(last.hdr) EXCEPT !.alg = "HS256"] \in issued
    /\ now < BearerToken(last.hdr).payload.exp
    /\ last.status = 401

\* The request of the step just taken, as it arrived (not the statement a
\* pending update or delete ran later).
Arrived(x) == x.op # "none" /\ x.phase # "exec"

Parts(h) == SelectSeq(h.raw, LAMBDA piece : piece.k # "sp")

BearerSpellings == {<<"B", "e", "a", "r", "e", "r">>, <<"b", "e", "a", "r", "e", "r">>,
                    <<"B", "E", "A", "R", "E", "R">>}

WellFormedBearer(h) ==
    /\ h.present
    /\ Len(Parts(h)) = 2
    /\ Parts(h)[1].k = "word"
    /\ Parts(h)[1].w \in BearerSpellings

FailsVerification(piece, time) ==
    \/ piece.k # "tok"
    \/ ~ Genuine(piece.t)
    \/ time >= piece.t.payload.exp

\* C6: a request with a well-formed Bearer header whose token is expired
\* or invalid is answered 401 on every route, no handler runs and the
\* store is as it was.
C6_FailedTokenRefused ==
    [][(/\ Arrived(last')
        /\ WellFormedBearer(last'.hdr)
        /\ FailsVerification(Parts(last'.hdr)[2], now'))
       => (/\ last'.status = 401
           /\ last'.body \in {[error |-> "Token expired"], [error |-> "Invalid token"]}
           /\ ~ last'.handled
           /\ last'.user_id = 0
           /\ <<users, user_seq, ads, ad_seq, issued, pend>>'
                 = <<users, user_seq, ads, ad_seq, issued, pend>>)]_vars

\* C6 witness: a read of an existing listing with the token that created
\* it, now expired, was refused.
C6_Witness ==
    /\ last.op = "get"
    /\ last.ad \in DOMAIN ads
    /\ WellFormedBearer(last.hdr)
    /\ Parts(last.hdr)[2].k = "tok"
    /\ Parts(last.hdr)[2].t \in issued
    /\ now >= Parts(last.hdr)[2].t.payload.exp
    /\ last.status = 401
    /\ ~ last.handled

\* C7: a request whose Authorization header is absent or is not two parts
\* with a bearer scheme gets no identity and no resolver error: register,
\* login, list and get are served as for an anonymous caller; create,
\* update and delete are answered 401 and the store is as it was.
Registered(email) == \E u \in DOMAIN users : users[u].email = email

C7_AnonymousProceeds ==
    [][(Arrived(last') /\ ~ WellFormedBearer(last'.hdr))
       => (/\ last'.handled
           /\ last'.user_id = 0
           /\ last'.body \notin {[error |-> "Token expired"], [error |-> "Invalid token"]}
           /\ last'.op = "register"
                 => last'.status = (IF Registered(<<"a", "@", "b", ".", "c">>) THEN 409 ELSE 201)
           /\ last'.op = "login"
                 => last'.status = (IF Registered(<<"a", "@", "b", ".", "c">>) THEN 200 ELSE 401)
           /\ last'.op = "list"
                 => (last'.status = 200 /\ last'.body.count = Cardinality(DOMAIN ads))
           /\ last'.op = "get"
                 => last'.status = (IF last'.ad \in DOMAIN ads THEN 200 ELSE 404)
           /\ last'.op \in {"create", "update", "delete"}
                 => (/\ last'.status = 401
                     /\ <<users, user_seq, ads, ad_seq, issued, pend>>'
                           = <<users, user_seq, ads, ad_seq, issued, pend>>))]_vars

\* C7 witness: a delete of an existing listing with the owner's good token
\* under the scheme Basic was answered 401 and the listing is there.
C7_Witness ==
    /\ last.op = "delete"
    /\ last.hdr.present
    /\ Len(last.hdr.raw) = 3
    /\ last.hdr.raw[1] = [k |-> "word", w |-> <<"B", "a", "s", "i", "c">>]
    /\ last.hdr.raw[3].t \in issued
    /\ last.ad \in DOMAIN ads
    /\ last.status = 401

\* The number a raw parameter of SpecPage stands for: a set of one number,
\* or of none when int() refuses it.
Meaning(raw) ==
    CASE raw = <<"-", "1">> -> {-1}
      [] raw = <<"-", "0">> -> {0}
      [] raw = <<"0">> -> {0}
      [] raw = <<"1">> -> {1}
      [] raw = <<"2">> -> {2}
      [] raw = <<" ", "2", " ">> -> {2}
      [] raw = <<"3">> -> {3}
      [] raw = <<"+", "3">> -> {3}
      [] raw = <<"1", "0">> -> {10}
      [] raw = <<"1", "_", "0">> -> {10}
      [] raw = <<"5", "0">> -> {50}
      [] raw = <<"2", "0", "0">> -> {200}
      [] raw = <<"2", "0", "1">> -> {201}
      [] raw = <<"9", "9", "9">> -> {999}
      [] raw = <<"1", "0", "0", "0", "0", "0", "0">> -> {1000000}
      [] OTHER -> {}

Given(query, key) == IF key \in DOMAIN query THEN Meaning(query[key]) ELSE {}

The(number) == CHOOSE n \in number : TRUE

\* C11: the limit and offset of every listing are in [1, 200] and >= 0:
\* the limit is 50 when absent, unparseable or below 1, 200 when above 200,
\* else the parsed value; the offset is 0 when absent, unparseable or
\* negative, else the parsed value; the rows are that window of the store.
C11_PaginationClamped ==
    (last.op = "list" /\ last.status = 200)
       => LET l == Given(last.payload, "limit")
              o == Given(last.payload, "offset")
          IN  /\ last.body.limit \in 1..200
              /\ last.body.offset >= 0
              /\ last.body.limit = (IF l = {} \/ The(l) < 1 THEN 50
                                    ELSE IF The(l) > 200 THEN 200 ELSE The(l))
              /\ last.body.offset = (IF o = {} \/ The(o) < 0 THEN 0 ELSE The(o))
              /\ last.body.count <= last.body.limit
              /\ last.body.count = Len(last.body.items)
              /\ LET rest == Cardinality(DOMAIN ads) - last.body.offset
                 IN  last.body.count = (IF rest < 0 THEN 0
                                        ELSE IF rest < last.body.limit THEN rest
                                        ELSE last.body.limit)

\* C11 witness: a listing asked with limit 0 and offset -1 over a store of
\* two listings was served with limit 50 from offset 0.
C11_Witness ==
    /\ last.op = "list"
    /\ DOMAIN last.payload = {"limit", "offset"}
    /\ last.payload.limit = <<"0">>
    /\ last.payload.offset = <<"-", "1">>
    /\ last.body.limit = 50
    /\ last.body.offset = 0
    /\ last.body.count = 2

\* C12: a listing asked with the limit and offset an earlier listing
\* answered is answered with the same limit and offset.
C12_ClampIdempotent ==
    [][(/\ last.op = "list"
        /\ last'.op = "list"
        /\ last'.payload = [limit |-> str(last.body.limit), offset |-> str(last.body.offset)])
       => (/\ last'.body.limit = last.body.limit
           /\ last'.body.offset = last.body.offset)]_vars

\* C12 witness: the pair (10, 1) answered to limit "1_0" was sent back as
\* "10" and "1" and answered again.
C12_Witness ==
    /\ last.op = "list"
    /\ last.payload = [limit |-> <<"1", "0">>, offset |-> <<"1">>]
    /\ last.body.limit = 10
    /\ last.body.offset = 1
    /\ last.body.count = 1

\* C13: an authenticated update whose body has no editable key is answered
\* 400 "No fields to update"; one with an editable key that is an empty or
\* blank string is answered 400 with an error under that key; one whose
\* editable keys are all null is answered 400 "No valid fields to update";
\* none of them changes a listing.
EditableKeys(body) == DOMAIN body \cap {"title", "description"}

Blank(value) == value.t = "str" /\ \A i \in DOMAIN value.s : value.s[i] = " "

General(message) == [errors |-> [k \in {"_"} |-> message]]

Typed(email) == IF email = <<" ", "A", "@", "b", ".", "c">> THEN <<"a", "@", "b", ".", "c">> ELSE email

Matching(body) ==
    {u \in DOMAIN users :
        /\ users[u].email = Typed(body.email.s)
        /\ users[u].password_hash.digest = <<users[u].password_hash.salt, body.password.s>>}

C14_LoginUniformFailure ==
    [][(last'.op = "login" /\ ~ last'.hdr.present)
       => IF Matching(last'.payload) # {}
          THEN /\ last'.status = 200
               /\ DOMAIN last'.body = {"token"}
               /\ Genuine(last'.body.token)
               /\ \E u \in Matching(last'.payload) : last'.body.token.payload.sub = str(u)
               /\ issued' = issued \cup {last'.body.token}
          ELSE /\ last'.status = 401
               /\ last'.body = [error |-> "Invalid credentials"]
               /\ issued' = issued]_vars

\* C14 witness: with one user registered, a login with that user's email
\* and another password was answered 401 while the other email is unknown.
C14_Witness ==
    /\ last.op = "login"
    /\ last.status = 401
    /\ \E u \in DOMAIN users :
          /\ users[u].email = Typed(last.payload.email.s)
          /\ users[u].password_hash.digest # <<users[u].password_hash.salt, last.payload.password.s>>
    /\ \E e \in {<<"a", "@", "b", ".", "c">>, <<"x", "@", "y", ".", "z">>} :
          \A u \in DOMAIN users : users[u].email # e

\* C15: no two users share an email; a well-formed register request is
\* answered 201 with id, email and created_at and adds one user when no
\* user has its email (trimmed, in lower case), and is answered 409 and
\* adds none when one has; users are never removed or changed, so one
\* request per email is answered 201; no response to a register request
\* carries the password or its hash.
WellFormedCredentials(body) ==
    /\ body.email.s \in {<<"a", "@", "b", ".", "c">>, <<" ", "A", "@", "b", ".", "c">>,
                         <<"x", "@", "y", ".", "z">>}
    /\ Len(body.password.s) >= 6

C15_EmailUnique ==
    [][/\ \A u, v \in DOMAIN users' : users'[u].email = users'[v].email => u = v
       /\ \A u \in DOMAIN users : u \in DOMAIN users' /\ users'[u] = users[u]
       /\ (last'.op = "register" /\ WellFormedCredentials(last'.payload))
             => IF \E u \in DOMAIN users : users[u].email = Typed(last'.payload.email.s)
                THEN /\ last'.status = 409
                     /\ last'.body = [error |-> "User already exists"]
                     /\ users' = users
                ELSE /\ last'.status = 201
                     /\ DOMAIN last'.body = {"id", "email", "created_at"}
                     /\ last'.body.email = Typed(last'.payload.email.s)
                     /\ DOMAIN users' = DOMAIN users \cup {last'.body.id}
                     /\ last'.body.id \notin DOMAIN users
                     /\ users'[last'.body.id].email = last'.body.email
       /\ (last'.op = "register" /\ ~ WellFormedCredentials(last'.payload))
             => (last'.status = 400 /\ users' = users)
       /\ last'.op = "register"
             => (/\ DOMAIN last'.body \in {{"id", "email", "created_at"}, {"error"}, {"errors"}}
                 /\ last'.status = 201
                       => (/\ last'.body.id \in 1..user_seq'
                           /\ last'.body.created_at = <<"iso", now>>)
                 /\ last'.status = 400
                       => \A k \in DOMAIN last'.body.errors :
                             last'.body.errors[k] \in {"Field cannot be empty", "Invalid email",
                                                       "Min length is 6"})]_vars

\* C15 witness: a second register with the email of user 1, typed in
\* capitals with padding and with another password, was answered 409 and
\* user 1 is the only user.
C15_Witness ==
    /\ last.op = "register"
    /\ last.status = 409
    /\ last.payload.email.s = <<" ", "A", "@", "b", ".", "c">>
    /\ DOMAIN users = {1}
    /\ users[1].email = <<"a", "@", "b", ".", "c">>
    /\ users[1].password_hash.digest[2] # last.payload.password.s

\* C16: in every step, cancelled or not, each listing stays as it was, or
\* is removed by a delete that was out for it, or gets all the validated
\* fields of one update that was out for it and keeps its other columns;
\* a read returns a listing as one of these steps left it.
WholeUpdate(before, after, body) ==
    /\ \A k \in ValidatedFields(body) : after[k] = strip(body[k].s)
    /\ \A k \in DOMAIN before \ ValidatedFields(body) : after[k] = before[k]

C16_NoPartialMutation ==
    [][/\ \A id \in DOMAIN ads :
             \/ id \in DOMAIN ads' /\ ads'[id] = ads[id]
             \/ /\ id \notin DOMAIN ads'
                /\ \E p \in Procs : pend[p].op = "delete" /\ pend[p].ad_id = id /\ pend'[p].op = "idle"
             \/ /\ id \in DOMAIN ads'
                /\ \E p \in Procs : /\ pend[p].op = "update" /\ pend[p].ad_id = id
                                    /\ pend'[p].op = "idle"
                                    /\ WholeUpdate(ads[id], ads'[id], pend[p].payload)
       /\ (last'.op = "get" /\ last'.status = 200)
             => (/\ ads' = ads
                 /\ last'.body.title = ads[last'.ad].title
                 /\ last'.body.description = ads[last'.ad].description)]_vars

\* C16 witness: an update of title and description was cancelled with its
\* statement run: the listing has both new values.
C16_Witness ==
    /\ last.op = "update"
    /\ last.phase = "cancelled"
    /\ DOMAIN last.payload = {"title", "description"}
    /\ last.ad \in DOMAIN ads
    /\ ads[last.ad].title = <<"b">>
    /\ ads[last.ad].description = <<"a">>

\* C17: in every state, whatever was done since it was issued, a token
\* that has not reached its exp resolves to the user it was issued to; no
\* token is ever taken back; a request that carries such a token is
\* handled as that user's.
C17_TokenStateless ==
    [][/\ issued \subseteq issued'
       /\ \A t \in issued' :
             now' < t.payload.exp
                => (/\ auth_middleware(Bearer(t), now').pass
                    /\ str(auth_middleware(Bearer(t), now').user_id) = t.payload.sub)
       /\ (Arrived(last') /\ Authenticated(last'.hdr))
             => (/\ last'.handled
                 /\ str(last'.user_id) = BearerToken(last'.hdr).payload.sub
                 /\ last'.body \notin {[error |-> "Token expired"], [error |-> "Invalid token"],
                                       [error |-> "Authorization required"]})]_vars

\* C17 witness: after the same user logged in again later and the listing
\* it had created was deleted, a request with the first token, one second
\* before its exp, was handled as that user's.
C17_Witness ==
    /\ last.op = "update"
    /\ last.status = 404
    /\ Authenticated(last.hdr)
    /\ BearerToken(last.hdr).payload.iat = 0
    /\ now = BearerToken(last.hdr).payload.exp - 1
    /\ \E t \in issued : /\ t.payload.sub = BearerToken(last.hdr).payload.sub
                         /\ t.payload.iat > 0
    /\ ad_seq = 1
    /\ ads = <<>>

\* C18: an update is refused by the first of these that fails: identity
\* (401), the body (400), the listing being there (404), the caller owning
\* it (403); only a request that passes all four changes the listing.  A
\* caller without identity gets 401 and a caller with a body out of order
\* gets 400 whatever the id in the path, also one beyond the id column.
InOrder(body) ==
    /\ EditableKeys(body) # {}
    /\ \A k \in EditableKeys(body) : body[k].t = "str" /\ ~ Blank(body[k])

InColumn(x) == "segment" \notin DOMAIN x

====
